---- MODULE Spec2Model ----
(***************************************************************************)
(* A model of the retrieval engine of agentkit: the chunker and            *)
(* build_doc_chunks of rag/ingest.py and the namespaced vector store with  *)
(* its query cache of rag/store.py.                                        *)
(*                                                                         *)
(* Texts are handled as sequences of one-character strings wherever the    *)
(* code looks at characters (chunk_text); what the store keeps (ids,       *)
(* documents, cache keys) are strings built with \o, as the code builds    *)
(* them with f-strings.                                                    *)
(***************************************************************************)
EXTENDS Integers, Sequences, FiniteSets, TLC

(***************************************************************************)
(* Characters and strings                                                  *)
(***************************************************************************)

\* str.strip() / str.split() / the regex class \s: the whitespace of the model's alphabet
Whitespace == {" ", "\n"}

\* the regex class [.!?] of chunk_text's sentence splitter
Terminal == {".", "!", "?"}

\* n copies of the character c
RECURSIVE Rep(_, _)
Rep(c, n) == IF n <= 0 THEN <<>> ELSE <<c>> \o Rep(c, n - 1)

\* the string spelled by a sequence of characters
RECURSIVE Str(_)
Str(cs) == IF cs = <<>> THEN "" ELSE Head(cs) \o Str(Tail(cs))

RECURSIVE lstrip(_)
lstrip(s) == IF s # <<>> /\ Head(s) \in Whitespace THEN lstrip(Tail(s)) ELSE s

RECURSIVE rstrip(_)
rstrip(s) ==
    IF s # <<>> /\ s[Len(s)] \in Whitespace
    THEN rstrip(SubSeq(s, 1, Len(s) - 1))
    ELSE s

\* str.strip()
strip(s) == rstrip(lstrip(s))

\* sep.join(parts)
RECURSIVE join(_, _)
join(parts, sep) ==
    IF parts = <<>> THEN <<>>
    ELSE IF Len(parts) = 1 THEN Head(parts)
    ELSE Head(parts) \o sep \o join(Tail(parts), sep)

\* the first index >= i of s that holds no whitespace (Len(s) + 1 if none)
RECURSIVE SkipSpace(_, _)
SkipSpace(s, i) ==
    IF i <= Len(s) /\ s[i] \in Whitespace THEN SkipSpace(s, i + 1) ELSE i

\* the first index >= i of s that holds whitespace (Len(s) + 1 if none)
RECURSIVE SkipWord(_, _)
SkipWord(s, i) ==
    IF i <= Len(s) /\ s[i] \notin Whitespace THEN SkipWord(s, i + 1) ELSE i

\* str.split(): the maximal runs of non-whitespace, in order
RECURSIVE split_from(_, _)
split_from(s, i) ==
    LET b == SkipSpace(s, i)
        e == SkipWord(s, b)
    IN IF b > Len(s) THEN <<>>
       ELSE <<SubSeq(s, b, e - 1)>> \o split_from(s, e)

split(s) == split_from(s, 1)

\* re.split(r"(?<=[.!?])\s+", s): a cut at every whitespace run that directly
\* follows a terminal character; start is where the current piece began
RECURSIVE re_split_from(_, _, _)
re_split_from(s, start, i) ==
    LET cuts == {c \in i..Len(s) : s[c] \in Whitespace /\ c > 1 /\ s[c - 1] \in Terminal}
    IN IF cuts = {} THEN <<SubSeq(s, start, Len(s))>>
       ELSE LET c == CHOOSE x \in cuts : \A y \in cuts : x <= y
                j == SkipSpace(s, c)
            IN <<SubSeq(s, start, c - 1)>> \o re_split_from(s, j, j)

re_split(s) == re_split_from(s, 1, 1)

\* words[-n:] for n # 0: the last n words for n > 0, the words from index -n
\* on for n < 0
LastN(words, n) ==
    IF n < 0 THEN SubSeq(words, 1 - n, Len(words))
    ELSE IF n >= Len(words) THEN words
    ELSE SubSeq(words, Len(words) - n + 1, Len(words))

(***************************************************************************)
(* rag/ingest.py: chunk_text                                               *)
(***************************************************************************)

\* the length a chunk must exceed to be kept
MinChunkLen == 30

\* " ".join(" ".join(cur).split()[-overlap:]) if overlap else "", on the
\* chunk that was just closed
overlap_tokens(closed, overlap) ==
    IF overlap # 0 THEN join(LastN(split(closed), overlap), <<" ">>) ELSE <<>>

\* the for loop of chunk_text over the sentences still to be read
RECURSIVE chunk_loop(_, _, _, _, _, _)
chunk_loop(sentences, chunks, cur, cur_len, chunk_size, overlap) ==
    IF sentences = <<>> THEN [chunks |-> chunks, cur |-> cur]
    ELSE LET s == Head(sentences) IN
         IF cur_len + Len(s) > chunk_size /\ cur # <<>>
         THEN LET closed == join(cur, <<" ">>)
                  seed == overlap_tokens(closed, overlap)
                  ncur == IF seed # <<>> THEN <<seed, s>> ELSE <<s>>
              IN chunk_loop(Tail(sentences), Append(chunks, closed), ncur,
                            Len(join(ncur, <<" ">>)), chunk_size, overlap)
         ELSE chunk_loop(Tail(sentences), chunks, Append(cur, s),
                         cur_len + Len(s), chunk_size, overlap)

\* accumulate that leaves out the chunk still open when the text ends
accumulate_unflushed(text, chunk_size, overlap) ==
    chunk_loop(re_split(strip(text)), <<>>, <<>>, 0, chunk_size, overlap).chunks

\* the chunks accumulated before the short-chunk filter
accumulate(text, chunk_size, overlap) ==
    LET r == chunk_loop(re_split(strip(text)), <<>>, <<>>, 0, chunk_size, overlap)
    IN IF r.cur # <<>> THEN Append(r.chunks, join(r.cur, <<" ">>)) ELSE r.chunks

\* the filter of chunk_text that keeps a chunk of MinChunkLen characters
RECURSIVE filter_short_keeps(_)
filter_short_keeps(chunks) ==
    IF chunks = <<>> THEN <<>>
    ELSE LET c == strip(Head(chunks))
         IN (IF Len(c) >= MinChunkLen THEN <<c>> ELSE <<>>)
            \o filter_short_keeps(Tail(chunks))

\* the list comprehension that ends chunk_text
RECURSIVE filter_short(_)
filter_short(chunks) ==
    IF chunks = <<>> THEN <<>>
    ELSE LET c == strip(Head(chunks))
         IN (IF Len(c) > MinChunkLen THEN <<c>> ELSE <<>>) \o filter_short(Tail(chunks))

chunk_text(text, chunk_size, overlap) ==
    filter_short(accumulate(text, chunk_size, overlap))


(***************************************************************************)
(* rag/ingest.py: extract_text_from_file and build_doc_chunks              *)
(***************************************************************************)

\* the value of an absent metadata key (metadata.get("doc_id") is None)
NoDocId == "None"

\* the suffixes extract_text_from_file dispatches on
ExtractorSuffixes == {".pdf", ".docx", ".txt", ".md", ".markdown"}

\* a file is its name, its lower-cased suffix and the text its extractor reads
extract_text_from_file(file) ==
    IF file.suffix \in ExtractorSuffixes
    THEN [raised |-> FALSE, text |-> file.text]
    ELSE [raised |-> TRUE, text |-> <<>>]

\* build_doc_chunks with the id of every document drawn afresh
build_doc_chunks_uuid(file, metadata, chunk_size, overlap, uuid) ==
    LET chunks == chunk_text(extract_text_from_file(file).text, chunk_size, overlap)
    IN [i \in 1..Len(chunks) |->
           [id |-> uuid \o "-" \o ToString(i - 1),
            text |-> Str(chunks[i]),
            chars |-> chunks[i],
            metadata |-> [doc_id |-> metadata.doc_id,
                          filename |-> metadata.filename,
                          namespace |-> metadata.namespace,
                          chunk |-> i - 1]]]

\* the chunk records of a document; uuid is what uuid.uuid4() returns when the
\* metadata carries no doc_id
build_doc_chunks(file, metadata, chunk_size, overlap, uuid) ==
    LET chunks == chunk_text(extract_text_from_file(file).text, chunk_size, overlap)
        doc_id == IF metadata.doc_id # NoDocId /\ metadata.doc_id # ""
                  THEN metadata.doc_id ELSE uuid
    IN [i \in 1..Len(chunks) |->
           [id |-> doc_id \o "-" \o ToString(i - 1),
            text |-> Str(chunks[i]),
            chars |-> chunks[i],
            metadata |-> [doc_id |-> metadata.doc_id,
                          filename |-> metadata.filename,
                          namespace |-> metadata.namespace,
                          chunk |-> i - 1]]]

(***************************************************************************)
(* The embedding model and the index (sentence-transformers, ChromaDB)     *)
(***************************************************************************)

\* relevance_score that takes the distance for a similarity
relevance_score_similarity(distance) == (1000 * distance) \div (1 + distance)

RECURSIVE Count(_, _)
Count(cs, c) ==
    IF cs = <<>> THEN 0
    ELSE (IF Head(cs) = c THEN 1 ELSE 0) + Count(Tail(cs), c)

\* model.encode: a fixed function of the text (here two small features of it)
encode(cs) == <<Len(cs) % 7, Count(cs, "a") % 5>>

\* the squared L2 distance ChromaDB reports
l2(u, v) == (u[1] - v[1]) * (u[1] - v[1]) + (u[2] - v[2]) * (u[2] - v[2])

\* round(1.0 / (1.0 + distance), 3), in thousandths, for a whole distance. A
\* tie (the quotient ends in 5 ten-thousandths) is rounded to even only where
\* the float holds it exactly, at 1/16; the floats of 1/80, 1/400 and 1/2000
\* lie above the tie and are rounded up
relevance_score(distance) ==
    LET den == 1 + distance
        q == 1000 \div den
        r == 1000 % den
    IN IF 2 * r < den THEN q
       ELSE IF 2 * r > den THEN q + 1
       ELSE IF den = 16 THEN q ELSE q + 1

(***************************************************************************)
(* Inputs of the model                                                     *)
(***************************************************************************)

\* the namespaces callers name; ':' is the separator of the cache key
Namespaces == {"ns", "ns:q"}

DocIds == {"d1", "d2"}

\* what uuid.uuid4() may return
Uuids == {"u1", "u2"}

Sentence(c) == Rep(c, 34) \o <<".">>

\* a file of two sentences (two chunks) and one of one sentence (one chunk)
FileA ==
    [name |-> "a.txt", suffix |-> ".txt",
     text |-> Sentence("a") \o <<" ">> \o Sentence("b")]

FileB ==
    [name |-> "b.md", suffix |-> ".md",
     text |-> <<"\n">> \o Sentence("c") \o <<" ">>]

Files == {FileA, FileB}

\* chunk_size and overlap as the model's ingestions pass them
IngestChunkSize == 40
IngestOverlap == 1

\* the query texts
QueryX == <<"x">>
QueryQX == <<"q", ":", "x">>

Queries == {QueryX, QueryQX}

\* the largest k a query asks for
MaxK == 2

\* the namespaces of the requests to the namespace endpoints
ApiNamespaces == {"default", "docs", "ns"}

\* sorted() on the names of the model
NamespaceOrder == <<"default", "docs", "ns", "ns:q">>

\* the new_name and name form values of the requests: a free name, a name to
\* be stripped, a name with a character outside the pattern, a blank name,
\* and the default namespace
NameForms ==
    {<<"d", "o", "c", "s">>, <<" ", "n", "s">>, <<"n", "s", ":", "q">>, <<" ">>,
     <<"d", "e", "f", "a", "u", "l", "t">>}

\* the characters of the names above that [a-zA-Z0-9_-] matches
NameClass == {"a", "c", "d", "e", "f", "l", "n", "o", "q", "s", "t", "u"}

\* what the embeddings of the records copied by rename_namespace can be: the
\* ones of the store's model, the ones of the collection's own embedding
\* function, or none because that function raises
CopyEmbeddings == {"model", "collection", "raise"}

\* where an operation's collaborators may raise: nowhere, in the client
\* (get_client, get_collection), or later (the model, the collection)
FailPoints == {"none", "client", "model"}

(***************************************************************************)
(* rag/store.py: state                                                     *)
(***************************************************************************)

VARIABLES
    chroma,        \* the client's persistent collections: name -> [exists, docs]
    collections,   \* _collections: the names with a cached collection handle
    query_cache,   \* _query_cache: the entries [key, result] in insertion order
    last,          \* the last call: its name, arguments and what it returned
    ncalls,        \* the number of calls made so far
    embedder,      \* _model, _model_name, _config["embedding_model"] and the
                   \* number of SentenceTransformer instances constructed
    threads,       \* the calls of query in progress: thread -> its frame
    routing_metrics \* agent/router.py: _routing_metrics

vars == <<chroma, collections, query_cache, last, ncalls, embedder, threads,
          routing_metrics>>

\* the number of calls a run makes at most: of a run without failures, and
\* of a run in which collaborators may raise
MaxCalls == 4
MaxCallsDocs == 5
MaxCallsFail == 3

\* _cache_max_size, scaled down from the code's 100
cache_max_size == 2

\* _cache_enabled and _config["cache_enabled"]; no call of the model changes them
cache_enabled == TRUE

NoCollection == [exists |-> FALSE, docs |-> {}]

Call(op, ns, doc, file, q, k, use_cache) ==
    [op |-> op, ns |-> ns, doc |-> doc, file |-> file, q |-> q, k |-> k,
     use_cache |-> use_cache, out |-> <<>>, n |-> 0, raised |-> FALSE, hit |-> FALSE,
     evicted |-> "", ids |-> {}, status |-> 0, new_name |-> "", key |-> "",
     value |-> "", method |-> ""]

\* _model = None
NoModel == "None"

\* _config["embedding_model"] at import, and one of the alternative models
DefaultModel == "sentence-transformers/all-MiniLM-L6-v2"
BalancedModel == "sentence-transformers/all-mpnet-base-v2"
ModelNames == {DefaultModel, BalancedModel}

\* the store's model: model is the name the loaded instance was constructed
\* with (NoModel for _model = None), model_name is _model_name, config is
\* _config["embedding_model"], constructed counts the calls of
\* SentenceTransformer(...) that returned
InitEmbedder ==
    [model |-> NoModel, model_name |-> NoModel, config |-> DefaultModel,
     constructed |-> 0]

\* the threads that may run query, and the frame of a thread that runs no call
Threads == {"t1", "t2"}

IdleFrame ==
    [pc |-> "idle", ns |-> "", q |-> <<>>, k |-> 0, cache_key |-> "", out |-> <<>>,
     oldest_key |-> "", searched |-> FALSE, raised |-> FALSE, escaped |-> FALSE,
     ret |-> <<>>]

\* _routing_metrics at import and after reset_routing_metrics (last_reset, a
\* time stamp, is left out)
InitRoutingMetrics ==
    [total_routes |-> 0,
     tool_usage |-> [t \in {"web", "rag", "memory", "idle"} |-> 0],
     routing_methods |-> [m \in {"llm", "fallback", "error_fallback"} |-> 0]]

\* the state of the modules after import, beside the collections
InitGlobals ==
    /\ collections = {}
    /\ query_cache = <<>>
    /\ last = Call("init", "", "", "", "", 0, FALSE)
    /\ ncalls = 0
    /\ embedder = InitEmbedder
    /\ threads = [t \in Threads |-> IdleFrame]
    /\ routing_metrics = InitRoutingMetrics

Init ==
    /\ chroma = [ns \in Namespaces |-> NoCollection]
    /\ InitGlobals

\* get_model that constructs the model at every call
get_model_always(e) ==
    [e EXCEPT !.model = e.config, !.model_name = e.config, !.constructed = @ + 1]

\* get_model(): the embedder after the call; the model is constructed only if
\* none is loaded or the loaded one was constructed under another name
get_model(e) ==
    IF e.model = NoModel \/ e.model_name # e.config
    THEN [e EXCEPT !.model = e.config, !.model_name = e.config, !.constructed = @ + 1]
    ELSE e

\* the embedder after a call in which the model or the index raised: the
\* exception came from SentenceTransformer(...), or from a later statement
get_model_raised(e) == {e, get_model(e)}

(***************************************************************************)
(* rag/store.py: helpers                                                   *)
(***************************************************************************)

\* client.list_collections()
list_collections == {ns \in DOMAIN chroma : chroma[ns].exists}

\* get_collection: the handle is cached; a collection that does not exist is created
get_collection_db(ns) ==
    IF ns \in collections \/ chroma[ns].exists THEN chroma
    ELSE [chroma EXCEPT ![ns] = [exists |-> TRUE, docs |-> {}]]

get_collection_handles(ns) == collections \cup {ns}

\* _get_cache_key: the text that is hashed; md5 is taken as injective
_get_cache_key(namespace, query_text, k) ==
    namespace \o ":" \o query_text \o ":" \o ToString(k)

CacheKeys == {query_cache[i].key : i \in 1..Len(query_cache)}

CacheIndex(cache_key) ==
    CHOOSE i \in 1..Len(query_cache) : query_cache[i].key = cache_key

\* _get_cached_result that never finds an entry
_get_cached_result_miss(cache_key) == [found |-> FALSE, result |-> <<>>]

\* _get_cached_result: [found, result]
_get_cached_result(cache_key) ==
    IF ~cache_enabled THEN [found |-> FALSE, result |-> <<>>]
    ELSE IF cache_key \in CacheKeys
         THEN [found |-> TRUE, result |-> query_cache[CacheIndex(cache_key)].result]
         ELSE [found |-> FALSE, result |-> <<>>]

\* dict assignment: a key that is present keeps its place
DictSet(cache, cache_key, result) ==
    IF \E i \in 1..Len(cache) : cache[i].key = cache_key
    THEN [i \in 1..Len(cache) |->
             IF cache[i].key = cache_key
             THEN [key |-> cache_key, result |-> result] ELSE cache[i]]
    ELSE Append(cache, [key |-> cache_key, result |-> result])

\* the key _cache_result deletes before it stores cache_key ("" if it deletes none)
oldest_key(cache) ==
    IF cache_enabled /\ Len(cache) >= cache_max_size
    THEN Head(cache).key ELSE ""

\* _cache_result that deletes the newest entry of a full cache
_cache_result_newest(cache, cache_key, result) ==
    IF ~cache_enabled THEN cache
    ELSE IF Len(cache) >= cache_max_size
         THEN DictSet(SubSeq(cache, 1, Len(cache) - 1), cache_key, result)
         ELSE DictSet(cache, cache_key, result)

\* _cache_result that deletes nothing
_cache_result_unbounded(cache, cache_key, result) ==
    IF ~cache_enabled THEN cache ELSE DictSet(cache, cache_key, result)

\* _cache_result: the cache after the call
_cache_result(cache, cache_key, result) ==
    IF ~cache_enabled THEN cache
    ELSE IF Len(cache) >= cache_max_size
         THEN DictSet(Tail(cache), cache_key, result)
         ELSE DictSet(cache, cache_key, result)

\* get_cache_stats
get_cache_stats ==
    [cache_size |-> Len(query_cache),
     cache_max_size |-> cache_max_size,
     cache_enabled |-> cache_enabled]

\* the ids a chunk of the model can carry, in a fixed order
IdPrefixes == <<"d1", "d2", "u1", "u2">>

IdOrder ==
    [n \in 1..(4 * Len(IdPrefixes)) |->
        IdPrefixes[((n - 1) \div 4) + 1] \o "-" \o ToString((n - 1) % 4)]

IdRank(id) == CHOOSE n \in DOMAIN IdOrder : IdOrder[n] = id

\* the order in which the index returns two stored records for a query
\* embedding: by distance, ties in a fixed order of the records
Nearer(q_emb, a, b) ==
    LET da == l2(q_emb, a.embedding)
        db == l2(q_emb, b.embedding)
    IN \/ da < db
       \/ da = db /\ IdRank(a.id) < IdRank(b.id)

\* col.query(query_embeddings, n_results = k): the k nearest records, nearest first
RECURSIVE col_query(_, _, _)
col_query(docs, q_emb, k) ==
    IF k <= 0 \/ docs = {} THEN <<>>
    ELSE LET best == CHOOSE a \in docs : \A b \in docs \ {a} : Nearer(q_emb, a, b)
         IN <<best>> \o col_query(docs \ {best}, q_emb, k - 1)

\* the result records query builds from the index's answer
FormatResults(res, q_emb) ==
    [i \in 1..Len(res) |->
        [id |-> res[i].id,
         text |-> res[i].text,
         metadata |-> res[i].metadata,
         distance |-> l2(q_emb, res[i].embedding),
         relevance_score |-> relevance_score(l2(q_emb, res[i].embedding))]]

\* what an uncached query computes on a set of stored records
Search(docs, query_chars, k) ==
    FormatResults(col_query(docs, encode(query_chars), k), encode(query_chars))

\* col.upsert: records are keyed by id
col_upsert(docs, chunks) ==
    LET ids == {chunks[i].id : i \in 1..Len(chunks)}
    IN {d \in docs : d.id \notin ids}
       \cup {[id |-> chunks[i].id, text |-> chunks[i].text,
              chars |-> chunks[i].chars,
              metadata |-> chunks[i].metadata,
              embedding |-> encode(chunks[i].chars)] : i \in 1..Len(chunks)}

Seq2Set(s) == {s[i] : i \in 1..Len(s)}


(***************************************************************************)
(* rag/store.py: operations                                                *)
(***************************************************************************)

\* upsert_chunks that removes the records it is about to replace before it
\* embeds the new texts
upsert_chunks_remove_first(namespace, chunks, fail, call) ==
    LET ids == {chunks[i].id : i \in 1..Len(chunks)}
        removed == [get_collection_db(namespace) EXCEPT
                       ![namespace].docs = {d \in @ : d.id \notin ids}]
    IN IF chunks = <<>>
       THEN /\ UNCHANGED <<chroma, collections, query_cache, embedder>>
            /\ last' = call
       ELSE IF fail = "client"
       THEN /\ UNCHANGED <<chroma, collections, query_cache, embedder>>
            /\ last' = [call EXCEPT !.raised = TRUE]
       ELSE IF fail = "model"
       THEN /\ chroma' = removed
            /\ collections' = get_collection_handles(namespace)
            /\ embedder' \in get_model_raised(embedder)
            /\ UNCHANGED query_cache
            /\ last' = [call EXCEPT !.raised = TRUE]
       ELSE /\ chroma' = [removed EXCEPT ![namespace].docs = col_upsert(@, chunks)]
            /\ collections' = get_collection_handles(namespace)
            /\ embedder' = get_model(embedder)
            /\ UNCHANGED query_cache
            /\ last' = [call EXCEPT !.n = Len(chunks), !.ids = ids]

\* upsert_chunks(namespace, chunks); fail says where a collaborator raises
upsert_chunks(namespace, chunks, fail, call) ==
    IF chunks = <<>>
    THEN /\ UNCHANGED <<chroma, collections, query_cache, embedder>>
         /\ last' = call
    ELSE IF fail = "client"
    THEN /\ UNCHANGED <<chroma, collections, query_cache, embedder>>
         /\ last' = [call EXCEPT !.raised = TRUE]
    ELSE IF fail = "model"
    THEN /\ chroma' = get_collection_db(namespace)
         /\ collections' = get_collection_handles(namespace)
         /\ embedder' \in get_model_raised(embedder)
         /\ UNCHANGED query_cache
         /\ last' = [call EXCEPT !.raised = TRUE]
    ELSE /\ chroma' = [get_collection_db(namespace) EXCEPT
                          ![namespace].docs = col_upsert(@, chunks)]
         /\ collections' = get_collection_handles(namespace)
         /\ embedder' = get_model(embedder)
         /\ UNCHANGED query_cache
         /\ last' = [call EXCEPT !.n = Len(chunks),
                                 !.ids = {chunks[i].id : i \in 1..Len(chunks)}]

\* an ingestion as ingest_doc runs it: build_doc_chunks on the file with the
\* metadata of the request, then upsert_chunks into the namespace
Ingest(namespace, file, doc_id, uuid, fail) ==
    upsert_chunks(namespace,
                  build_doc_chunks(file,
                                   [doc_id |-> doc_id, filename |-> file.name,
                                    namespace |-> namespace],
                                   IngestChunkSize, IngestOverlap, uuid),
                  fail,
                  Call("ingest", namespace, doc_id, file.name, "", 0, FALSE))

\* query that stores the empty list of a caught exception in the cache
query_cache_errors(namespace, query_chars, k, use_cache, fail) ==
    LET query_text == Str(query_chars)
        cache_key == _get_cache_key(namespace, query_text, k)
        cached == _get_cached_result(cache_key)
        call == Call("query", namespace, "", "", query_text, k, use_cache)
    IN IF use_cache /\ cached.found
       THEN /\ UNCHANGED <<chroma, collections, query_cache, embedder>>
            /\ last' = [call EXCEPT !.out = cached.result, !.hit = TRUE]
       ELSE IF fail # "none"
       THEN /\ UNCHANGED <<chroma, collections, embedder>>
            /\ query_cache' = IF use_cache
                              THEN _cache_result(query_cache, cache_key, <<>>)
                              ELSE query_cache
            /\ last' = [call EXCEPT !.raised = TRUE]
       ELSE LET out == Search(get_collection_db(namespace)[namespace].docs,
                              query_chars, k)
            IN /\ chroma' = get_collection_db(namespace)
               /\ collections' = get_collection_handles(namespace)
               /\ embedder' = get_model(embedder)
               /\ query_cache' = IF use_cache
                                 THEN _cache_result(query_cache, cache_key, out)
                                 ELSE query_cache
               /\ last' = [call EXCEPT !.out = out]

\* query that moves the entry it answers from to the newest place of the cache
query_touch(namespace, query_chars, k, use_cache, fail) ==
    LET query_text == Str(query_chars)
        cache_key == _get_cache_key(namespace, query_text, k)
        cached == _get_cached_result(cache_key)
        call == Call("query", namespace, "", "", query_text, k, use_cache)
        others == SelectSeq(query_cache, LAMBDA e : e.key # cache_key)
    IN IF use_cache /\ cached.found
       THEN /\ UNCHANGED <<chroma, collections, embedder>>
            /\ query_cache' = Append(others, [key |-> cache_key,
                                              result |-> cached.result])
            /\ last' = [call EXCEPT !.out = cached.result, !.hit = TRUE]
       ELSE LET out == Search(get_collection_db(namespace)[namespace].docs,
                              query_chars, k)
            IN /\ chroma' = get_collection_db(namespace)
               /\ collections' = get_collection_handles(namespace)
               /\ embedder' = get_model(embedder)
               /\ query_cache' = IF use_cache
                                 THEN _cache_result(query_cache, cache_key, out)
                                 ELSE query_cache
               /\ last' = [call EXCEPT !.out = out,
                                       !.evicted = IF use_cache
                                                   THEN oldest_key(query_cache)
                                                   ELSE ""]

\* query(namespace, query_text, k, use_cache); an exception of a collaborator
\* is caught and [] returned
query(namespace, query_chars, k, use_cache, fail) ==
    LET query_text == Str(query_chars)
        cache_key == _get_cache_key(namespace, query_text, k)
        cached == _get_cached_result(cache_key)
        call == Call("query", namespace, "", "", query_text, k, use_cache)
    IN IF use_cache /\ cached.found
       THEN /\ UNCHANGED <<chroma, collections, query_cache, embedder>>
            /\ last' = [call EXCEPT !.out = cached.result, !.hit = TRUE]
       ELSE IF fail = "client"
       THEN /\ UNCHANGED <<chroma, collections, query_cache, embedder>>
            /\ last' = [call EXCEPT !.raised = TRUE]
       ELSE IF fail = "model"
       THEN /\ chroma' = get_collection_db(namespace)
            /\ collections' = get_collection_handles(namespace)
            /\ embedder' \in get_model_raised(embedder)
            /\ UNCHANGED query_cache
            /\ last' = [call EXCEPT !.raised = TRUE]
       ELSE LET out == Search(get_collection_db(namespace)[namespace].docs,
                              query_chars, k)
            IN /\ chroma' = get_collection_db(namespace)
               /\ collections' = get_collection_handles(namespace)
               /\ embedder' = get_model(embedder)
               /\ query_cache' = IF use_cache
                                 THEN _cache_result(query_cache, cache_key, out)
                                 ELSE query_cache
               /\ last' = [call EXCEPT !.out = out,
                                       !.evicted = IF use_cache
                                                   THEN oldest_key(query_cache)
                                                   ELSE ""]

\* delete_document that deletes every chunk of the collection
delete_document_all(namespace, doc_id, fail) ==
    LET call == Call("delete_document", namespace, doc_id, "", "", 0, FALSE)
        db == get_collection_db(namespace)
    IN /\ chroma' = [db EXCEPT ![namespace].docs = {}]
       /\ collections' = get_collection_handles(namespace)
       /\ UNCHANGED query_cache
       /\ last' = [call EXCEPT !.n = Cardinality(db[namespace].docs)]

\* delete_document(namespace, doc_id): the count of the chunks removed; an
\* exception is re-raised
delete_document(namespace, doc_id, fail) ==
    LET call == Call("delete_document", namespace, doc_id, "", "", 0, FALSE)
        db == get_collection_db(namespace)
        chunk_ids_to_delete == {d \in db[namespace].docs : d.metadata.doc_id = doc_id}
    IN IF fail = "client"
       THEN /\ UNCHANGED <<chroma, collections, query_cache>>
            /\ last' = [call EXCEPT !.raised = TRUE]
       ELSE IF fail = "model"
       THEN /\ chroma' = db
            /\ collections' = get_collection_handles(namespace)
            /\ UNCHANGED query_cache
            /\ last' = [call EXCEPT !.raised = TRUE]
       ELSE /\ chroma' = [db EXCEPT ![namespace].docs = @ \ chunk_ids_to_delete]
            /\ collections' = get_collection_handles(namespace)
            /\ UNCHANGED query_cache
            /\ last' = [call EXCEPT !.n = Cardinality(chunk_ids_to_delete)]

\* delete_namespace(namespace): client.delete_collection raises for a
\* collection that does not exist; every exception is caught and printed
\* (raised records that one was caught)
delete_namespace(namespace, fail) ==
    LET call == Call("delete_namespace", namespace, "", "", "", 0, FALSE)
    IN IF fail # "none" \/ ~chroma[namespace].exists
       THEN /\ UNCHANGED <<chroma, collections, query_cache>>
            /\ last' = [call EXCEPT !.raised = TRUE]
       ELSE /\ chroma' = [chroma EXCEPT ![namespace] = NoCollection]
            /\ collections' = collections \ {namespace}
            /\ UNCHANGED query_cache
            /\ last' = call

\* clear_cache()
clear_cache ==
    /\ query_cache' = <<>>
    /\ UNCHANGED <<chroma, collections>>
    /\ last' = [Call("clear_cache", "", "", "", "", 0, FALSE) EXCEPT
                   !.n = Len(query_cache)]

\* set_embedding_model(model_name): the loaded model is dropped
set_embedding_model(model_name) ==
    /\ embedder' = [embedder EXCEPT !.config = model_name, !.model = NoModel,
                                    !.model_name = NoModel]
    /\ UNCHANGED <<chroma, collections, query_cache>>
    /\ last' = [Call("set_embedding_model", "", "", "", "", 0, FALSE) EXCEPT
                   !.value = model_name]

\* the keys of _config the model holds, and a key _config does not have
ConfigKeys == {"embedding_model"}
SetConfigKeys == ConfigKeys \cup {"embedding_dim"}

\* set_config(key, value): a key of _config is set, another key only printed
set_config(key, value) ==
    /\ embedder' = IF key \in ConfigKeys THEN [embedder EXCEPT !.config = value]
                   ELSE embedder
    /\ UNCHANGED <<chroma, collections, query_cache>>
    /\ last' = [Call("set_config", "", "", "", "", 0, FALSE) EXCEPT
                   !.key = key, !.value = value]

(***************************************************************************)
(* app/main.py: the namespace endpoints                                    *)
(***************************************************************************)

\* re.match(r'^[a-zA-Z0-9_-]+$', name) on a stripped name
name_matches(cs) == cs # <<>> /\ \A i \in 1..Len(cs) : cs[i] \in NameClass

NameRank(name) == CHOOSE n \in DOMAIN NamespaceOrder : NamespaceOrder[n] = name

RECURSIVE sorted(_)
sorted(names) ==
    IF names = {} THEN <<>>
    ELSE LET first == CHOOSE a \in names : \A b \in names : NameRank(a) <= NameRank(b)
         IN <<first>> \o sorted(names \ {first})

\* the embedding function a collection applies to documents that are
\* upserted without embeddings: another fixed function of the text
collection_ef(cs) == <<Len(cs) % 5, Count(cs, "b") % 3>>

\* the response of an endpoint: the call with its status code
Response(call, status) == [call EXCEPT !.status = status]

\* GET /namespaces without the append of "default"
list_namespaces_listed(fail) ==
    LET call == Call("list_namespaces", "", "", "", "", 0, FALSE)
        names == IF fail = "client" THEN {} ELSE list_collections
        info == [i \in 1..Cardinality(names) |->
                    LET ns == sorted(names)[i]
                    IN [name |-> ns,
                        document_count |-> IF fail = "none"
                                           THEN Cardinality(chroma[ns].docs) ELSE 0,
                        is_default |-> ns = "default"]]
    IN /\ UNCHANGED <<chroma, query_cache>>
       /\ collections' = collections \cup names
       /\ last' = [Response(call, 200) EXCEPT !.out = info, !.n = Len(info)]

\* GET /namespaces: list_collections answers [] when the client raises; the
\* count of a namespace is 0 when get_collection or count raises
list_namespaces(fail) ==
    LET call == Call("list_namespaces", "", "", "", "", 0, FALSE)
        names == IF fail = "client" THEN {"default"}
                 ELSE list_collections \cup {"default"}
        opened == IF fail = "client" THEN {} ELSE names
        info == [i \in 1..Cardinality(names) |->
                    LET ns == sorted(names)[i]
                    IN [name |-> ns,
                        document_count |-> IF fail = "none"
                                           THEN Cardinality(chroma[ns].docs) ELSE 0,
                        is_default |-> ns = "default"]]
    IN /\ chroma' = [ns \in DOMAIN chroma |->
                        IF ns \in opened THEN get_collection_db(ns)[ns] ELSE chroma[ns]]
       /\ collections' = collections \cup opened
       /\ UNCHANGED query_cache
       /\ last' = [Response(call, 200) EXCEPT !.out = info, !.n = Len(info)]

\* POST /namespaces
create_namespace(name_chars, fail) ==
    LET name == Str(strip(name_chars))
        call == Call("create_namespace", name, "", "", "", 0, FALSE)
        existing_namespaces == IF fail = "client" THEN {} ELSE list_collections
    IN IF strip(name_chars) = <<>> \/ ~name_matches(strip(name_chars))
       THEN /\ UNCHANGED <<chroma, collections, query_cache>>
            /\ last' = Response(call, 400)
       ELSE IF name \in existing_namespaces
       THEN /\ UNCHANGED <<chroma, collections, query_cache>>
            /\ last' = Response(call, 409)
       ELSE IF fail # "none"
       THEN /\ UNCHANGED <<chroma, collections, query_cache>>
            /\ last' = Response(call, 500)
       ELSE /\ chroma' = get_collection_db(name)
            /\ collections' = get_collection_handles(name)
            /\ UNCHANGED query_cache
            /\ last' = Response(call, 200)

\* DELETE /namespaces/{namespace_name} that refuses no namespace
delete_namespace_endpoint_any(namespace_name, fail) ==
    LET call == Call("delete_namespace_endpoint", namespace_name, "", "", "", 0, FALSE)
    IN IF namespace_name \notin list_collections
       THEN /\ UNCHANGED <<chroma, collections, query_cache>>
            /\ last' = Response(call, 404)
       ELSE /\ chroma' = [chroma EXCEPT ![namespace_name] = NoCollection]
            /\ collections' = collections \ {namespace_name}
            /\ UNCHANGED query_cache
            /\ last' = Response(call, 200)

\* DELETE /namespaces/{namespace_name}; delete_namespace catches what the
\* client raises, so that the response is 200 also then
delete_namespace_endpoint(namespace_name, fail) ==
    LET call == Call("delete_namespace_endpoint", namespace_name, "", "", "", 0, FALSE)
        existing_namespaces == IF fail = "client" THEN {} ELSE list_collections
    IN IF namespace_name = "default"
       THEN /\ UNCHANGED <<chroma, collections, query_cache>>
            /\ last' = Response(call, 400)
       ELSE IF namespace_name \notin existing_namespaces
       THEN /\ UNCHANGED <<chroma, collections, query_cache>>
            /\ last' = Response(call, 404)
       ELSE IF fail # "none"
       THEN /\ UNCHANGED <<chroma, collections, query_cache>>
            /\ last' = Response(call, 200)
       ELSE /\ chroma' = [chroma EXCEPT ![namespace_name] = NoCollection]
            /\ collections' = collections \ {namespace_name}
            /\ UNCHANGED query_cache
            /\ last' = Response(call, 200)

\* PUT /namespaces/{old_name}/rename: the records of the old collection are
\* read without their embeddings, upserted into a new collection and the old
\* collection is deleted; embeddings says what the new collection embeds
rename_namespace(old_name, new_chars, embeddings, fail) ==
    LET new_name == Str(strip(new_chars))
        call == [Call("rename_namespace", old_name, "", "", "", 0, FALSE)
                    EXCEPT !.new_name = new_name]
        existing_namespaces == IF fail = "client" THEN {} ELSE list_collections
        all_docs == chroma[old_name].docs
        copied == {[r EXCEPT !.embedding = IF embeddings = "model" THEN @
                                           ELSE collection_ef(r.chars)] :
                      r \in all_docs}
    IN IF strip(new_chars) = <<>> \/ ~name_matches(strip(new_chars))
       THEN /\ UNCHANGED <<chroma, collections, query_cache>>
            /\ last' = Response(call, 400)
       ELSE IF old_name = "default"
       THEN /\ UNCHANGED <<chroma, collections, query_cache>>
            /\ last' = Response(call, 400)
       ELSE IF old_name \notin existing_namespaces
       THEN /\ UNCHANGED <<chroma, collections, query_cache>>
            /\ last' = Response(call, 404)
       ELSE IF new_name \in existing_namespaces
       THEN /\ UNCHANGED <<chroma, collections, query_cache>>
            /\ last' = Response(call, 409)
       ELSE IF fail # "none"
       THEN /\ UNCHANGED <<chroma, collections, query_cache>>
            /\ last' = Response(call, 500)
       ELSE IF all_docs = {}
       THEN /\ chroma' = [chroma EXCEPT ![old_name] = NoCollection]
            /\ collections' = collections \ {old_name}
            /\ UNCHANGED query_cache
            /\ last' = Response(call, 200)
       ELSE IF embeddings = "raise"
       THEN /\ chroma' = get_collection_db(new_name)
            /\ collections' = collections \cup {old_name, new_name}
            /\ UNCHANGED query_cache
            /\ last' = Response(call, 500)
       ELSE /\ chroma' = [get_collection_db(new_name) EXCEPT
                             ![new_name].docs = @ \cup copied,
                             ![old_name] = NoCollection]
            /\ collections' = (collections \cup {new_name}) \ {old_name}
            /\ UNCHANGED query_cache
            /\ last' = [Response(call, 200) EXCEPT !.n = Cardinality(copied)]

\* SUPPORTED_EXTENSIONS of the upload validation
SUPPORTED_EXTENSIONS == {".pdf", ".docx", ".txt", ".md", ".markdown", ".json"}

\* MAX_FILE_SIZE, scaled down from the code's 52428800 bytes
MAX_FILE_SIZE == 60

\* str.lower on the upper-case letters the strings of the model are written with
UpperCase ==
    ("C" :> "c") @@ ("J" :> "j") @@ ("S" :> "s") @@ ("O" :> "o") @@ ("N" :> "n")
        @@ ("W" :> "w")

lower(cs) == [i \in 1..Len(cs) |-> IF cs[i] \in DOMAIN UpperCase THEN UpperCase[cs[i]] ELSE cs[i]]

\* the last place of character c in cs, 0 if it has none
LastIndex(cs, c) ==
    IF \E i \in 1..Len(cs) : cs[i] = c
    THEN CHOOSE i \in 1..Len(cs) : cs[i] = c /\ \A j \in (i + 1)..Len(cs) : cs[j] # c
    ELSE 0

\* os.path.splitext(name)[1]: from the last dot of the last path component,
\* unless only dots precede it there
splitext(cs) ==
    LET sep == LastIndex(cs, "/")
        dot == LastIndex(cs, ".")
    IN IF dot > sep /\ \E i \in (sep + 1)..(dot - 1) : cs[i] # "."
       THEN SubSeq(cs, dot, Len(cs)) ELSE <<>>

\* '..' in filename
has_dotdot(cs) == \E i \in 1..(Len(cs) - 1) : cs[i] = "." /\ cs[i + 1] = "."

\* validate_file_upload(file, content): the status and detail of the
\* HTTPException it raises, status 0 if it returns
validate_file_upload(filename, content) ==
    LET file_ext == Str(splitext(lower(filename)))
        file_size == Len(content)
    IN IF filename = <<>>
       THEN [status |-> 400, detail |-> "Filename is required"]
       ELSE IF has_dotdot(filename) \/ LastIndex(filename, "/") > 0
                                    \/ LastIndex(filename, "\\") > 0
       THEN [status |-> 400, detail |-> "Invalid filename: path traversal detected"]
       ELSE IF file_ext \notin SUPPORTED_EXTENSIONS
       THEN [status |-> 400, detail |-> "Unsupported file format"]
       ELSE IF file_size = 0
       THEN [status |-> 400, detail |-> "File is empty"]
       ELSE IF file_size > MAX_FILE_SIZE
       THEN [status |-> 413, detail |-> "File too large"]
       ELSE [status |-> 0, detail |-> ""]

\* a call of POST /docs/ingest; uuid is what uuid.uuid4() returns for the doc_id
IngestDocCall(filename, content, uuid) ==
    [op |-> "ingest_doc", done |-> FALSE, filename |-> filename, content |-> content,
     uuid |-> uuid, status |-> 0, detail |-> "", n |-> 0, ids |-> {}, raised |-> FALSE]

\* POST /docs/ingest: the upload is validated, written to a temporary file
\* that keeps its extension, chunked and stored; every exception of the
\* processing is answered with 500 and the exception's text
ingest_doc(filename, content, namespace, uuid) ==
    LET call == [IngestDocCall(filename, content, uuid) EXCEPT !.done = TRUE]
        validation == validate_file_upload(filename, content)
        file_ext == Str(splitext(lower(filename)))
        tmp_file == [name |-> Str(filename), suffix |-> file_ext, text |-> content]
        chunks == build_doc_chunks(tmp_file,
                                   [doc_id |-> uuid, filename |-> Str(filename),
                                    namespace |-> namespace],
                                   IngestChunkSize, IngestOverlap, uuid)
    IN IF validation.status # 0
       THEN /\ UNCHANGED <<chroma, collections, query_cache, embedder>>
            /\ last' = [call EXCEPT !.status = validation.status,
                                    !.detail = validation.detail]
       ELSE IF extract_text_from_file(tmp_file).raised
       THEN /\ UNCHANGED <<chroma, collections, query_cache, embedder>>
            /\ last' = [call EXCEPT !.status = 500,
                                    !.detail = "Unsupported file extension"]
       ELSE upsert_chunks(namespace, chunks, "none", [call EXCEPT !.status = 200])

(***************************************************************************)
(* The runs                                                                *)
(***************************************************************************)

\* one more call, while the run has calls left
Tick(max) ==
    /\ ncalls < max /\ ncalls' = ncalls + 1
    /\ UNCHANGED <<threads, routing_metrics>>

\* the steps of a run, over the inputs in of the run
IngestStep(in) ==
    /\ Tick(in.max)
    /\ \E ns \in in.namespaces, f \in in.files, d \in in.docs, u \in Uuids,
          fl \in in.fails :
           Ingest(ns, f, d, u, fl)

QueryStep(in) ==
    /\ Tick(in.max)
    /\ \E ns \in in.namespaces, q \in in.queries, k \in 1..MaxK, uc \in BOOLEAN,
          fl \in in.fails :
           query(ns, q, k, uc, fl)

DeleteDocumentStep(in) ==
    /\ Tick(in.max)
    /\ \E ns \in in.namespaces, d \in in.docs, fl \in in.fails :
           delete_document(ns, d, fl)
    /\ UNCHANGED embedder

DeleteNamespaceStep(in) ==
    /\ Tick(in.max)
    /\ \E ns \in in.namespaces, fl \in in.fails : delete_namespace(ns, fl)
    /\ UNCHANGED embedder

ClearCacheStep(in) == Tick(in.max) /\ clear_cache /\ UNCHANGED embedder

ListNamespacesStep(in) ==
    /\ Tick(in.max)
    /\ \E fl \in FailPoints : list_namespaces(fl)
    /\ UNCHANGED embedder

CreateNamespaceStep(in) ==
    /\ Tick(in.max)
    /\ \E nm \in NameForms, fl \in in.fails : create_namespace(nm, fl)
    /\ UNCHANGED embedder

DeleteNamespaceEndpointStep(in) ==
    /\ Tick(in.max)
    /\ \E ns \in in.namespaces, fl \in in.fails : delete_namespace_endpoint(ns, fl)
    /\ UNCHANGED embedder

RenameNamespaceStep(in) ==
    /\ Tick(in.max)
    /\ \E old \in in.namespaces, nm \in NameForms, e \in CopyEmbeddings,
          fl \in in.fails :
           rename_namespace(old, nm, e, fl)
    /\ UNCHANGED embedder

\* Spec: two namespaces that share one document, every query, no failure
Inputs ==
    [namespaces |-> Namespaces, files |-> {FileA}, docs |-> {"d1"},
     queries |-> Queries, fails |-> {"none"}, max |-> MaxCalls]

Next ==
    \/ IngestStep(Inputs)
    \/ QueryStep(Inputs)
    \/ DeleteDocumentStep(Inputs)
    \/ DeleteNamespaceStep(Inputs)
    \/ ClearCacheStep(Inputs)

Spec == Init /\ [][Next]_vars

\* SpecDocs: one namespace, two documents and two files (re-ingestion,
\* deletion of one document beside another)
InputsDocs ==
    [namespaces |-> {"ns"}, files |-> Files, docs |-> DocIds,
     queries |-> {QueryX}, fails |-> {"none"}, max |-> MaxCallsDocs]

NextDocs ==
    \/ IngestStep(InputsDocs)
    \/ QueryStep(InputsDocs)
    \/ DeleteDocumentStep(InputsDocs)
    \/ DeleteNamespaceStep(InputsDocs)
    \/ ClearCacheStep(InputsDocs)

SpecDocs == Init /\ [][NextDocs]_vars

\* SpecFail: the inputs of Spec, and the client, the model or the index may raise
InputsFail ==
    [namespaces |-> Namespaces, files |-> {FileA}, docs |-> {"d1"},
     queries |-> Queries, fails |-> FailPoints, max |-> MaxCallsFail]

NextFail ==
    \/ IngestStep(InputsFail)
    \/ QueryStep(InputsFail)
    \/ DeleteDocumentStep(InputsFail)
    \/ DeleteNamespaceStep(InputsFail)
    \/ ClearCacheStep(InputsFail)

SpecFail == Init /\ [][NextFail]_vars

\* SpecApi: the namespace endpoints beside ingestions and queries, on the
\* default namespace and two others
MaxCallsApi == 3

InputsApi ==
    [namespaces |-> ApiNamespaces, files |-> {FileB}, docs |-> {"d1"},
     queries |-> {QueryX}, fails |-> {"none"}, max |-> MaxCallsApi]

InitApi ==
    /\ chroma = [ns \in ApiNamespaces |-> NoCollection]
    /\ InitGlobals

NextApi ==
    \/ IngestStep(InputsApi)
    \/ QueryStep(InputsApi)
    \/ ListNamespacesStep(InputsApi)
    \/ CreateNamespaceStep(InputsApi)
    \/ DeleteNamespaceEndpointStep(InputsApi)
    \/ RenameNamespaceStep(InputsApi)

SpecApi == InitApi /\ [][NextApi]_vars

\* SpecModel: ingestions and queries on one namespace while the embedding
\* model is changed, and the model or the index may raise
MaxCallsModel == 4

InputsModel ==
    [namespaces |-> {"ns"}, files |-> {FileB}, docs |-> {"d1"},
     queries |-> {QueryX}, fails |-> {"none", "model"}, max |-> MaxCallsModel]

SetEmbeddingModelStep(in) ==
    /\ Tick(in.max)
    /\ \E name \in ModelNames : set_embedding_model(name)

SetConfigStep(in) ==
    /\ Tick(in.max)
    /\ \E key \in SetConfigKeys, name \in ModelNames : set_config(key, name)

NextModel ==
    \/ IngestStep(InputsModel)
    \/ QueryStep(InputsModel)
    \/ SetEmbeddingModelStep(InputsModel)
    \/ SetConfigStep(InputsModel)

SpecModel == Init /\ [][NextModel]_vars

(***************************************************************************)
(* rag/store.py: query statement by statement, called from several threads *)
(***************************************************************************)

\* SpecThreads: cached queries that run concurrently, a statement of one
\* between two statements of another, beside ingestions and clear_cache
MaxCallsThreads == 5

InputsThreads ==
    [namespaces |-> {"ns"}, files |-> {FileB}, docs |-> {"d1"},
     queries |-> Queries, fails |-> {"none"}, max |-> MaxCallsThreads]

\* what a thread's call of query returned, as a call record
Returned(f) ==
    [Call("query", f.ns, "", "", Str(f.q), f.k, TRUE) EXCEPT
        !.out = f.ret, !.raised = f.raised]

\* the except clause of query: the exception is printed and [] returned
Caught(t) ==
    LET f == [threads[t] EXCEPT !.pc = "done", !.raised = TRUE, !.ret = <<>>]
    IN /\ threads' = [threads EXCEPT ![t] = f]
       /\ last' = Returned(f)

\* query(namespace, query_text, k) is called: cache_key = _get_cache_key(...)
StartQuery(t) ==
    /\ threads[t].pc \in {"idle", "done"}
    /\ ncalls < MaxCallsThreads /\ ncalls' = ncalls + 1
    /\ \E ns \in InputsThreads.namespaces, q \in InputsThreads.queries, k \in 1..MaxK :
           threads' = [threads EXCEPT ![t] =
                          [IdleFrame EXCEPT !.pc = "lookup", !.ns = ns, !.q = q, !.k = k,
                                            !.cache_key = _get_cache_key(ns, Str(q), k)]]
    /\ UNCHANGED <<chroma, collections, query_cache, last, embedder, routing_metrics>>

\* _get_cached_result: if cache_key in _query_cache
CacheLookup(t) ==
    /\ threads[t].pc = "lookup"
    /\ threads' = [threads EXCEPT ![t].pc = IF threads[t].cache_key \in CacheKeys
                                            THEN "read" ELSE "search"]
    /\ UNCHANGED <<chroma, collections, query_cache, last, ncalls, embedder,
                   routing_metrics>>

\* _get_cached_result: cached = _query_cache[cache_key], and the return of
\* the cached result; the KeyError of an entry that is gone is raised outside
\* the try of query
CacheRead(t) ==
    /\ threads[t].pc = "read"
    /\ LET f == IF threads[t].cache_key \in CacheKeys
                THEN [threads[t] EXCEPT
                         !.pc = "done",
                         !.ret = query_cache[CacheIndex(threads[t].cache_key)].result]
                ELSE [threads[t] EXCEPT !.pc = "done", !.escaped = TRUE]
       IN /\ threads' = [threads EXCEPT ![t] = f]
          /\ last' = [Returned(f) EXCEPT !.hit = ~f.escaped, !.raised = f.escaped]
    /\ UNCHANGED <<chroma, collections, query_cache, ncalls, embedder, routing_metrics>>

\* get_collection, get_model, encode, col.query and the formatting of out
IndexSearch(t) ==
    /\ threads[t].pc = "search"
    /\ chroma' = get_collection_db(threads[t].ns)
    /\ collections' = get_collection_handles(threads[t].ns)
    /\ embedder' = get_model(embedder)
    /\ threads' = [threads EXCEPT
                      ![t].pc = "check",
                      ![t].searched = TRUE,
                      ![t].out = Search(get_collection_db(threads[t].ns)[threads[t].ns].docs,
                                        threads[t].q, threads[t].k)]
    /\ UNCHANGED <<query_cache, last, ncalls, routing_metrics>>

\* _cache_result: if len(_query_cache) >= _cache_max_size
CapacityCheck(t) ==
    /\ threads[t].pc = "check"
    /\ threads' = [threads EXCEPT ![t].pc = IF Len(query_cache) >= cache_max_size
                                            THEN "oldest" ELSE "insert"]
    /\ UNCHANGED <<chroma, collections, query_cache, last, ncalls, embedder,
                   routing_metrics>>

\* _cache_result: oldest_key = next(iter(_query_cache)); StopIteration on an
\* empty dict
OldestKey(t) ==
    /\ threads[t].pc = "oldest"
    /\ IF query_cache = <<>>
       THEN Caught(t)
       ELSE /\ threads' = [threads EXCEPT ![t].pc = "del",
                                          ![t].oldest_key = Head(query_cache).key]
            /\ UNCHANGED last
    /\ UNCHANGED <<chroma, collections, query_cache, ncalls, embedder, routing_metrics>>

\* _cache_result: del _query_cache[oldest_key]; KeyError if the key is gone
Evict(t) ==
    /\ threads[t].pc = "del"
    /\ IF threads[t].oldest_key \in CacheKeys
       THEN /\ query_cache' = SelectSeq(query_cache,
                                        LAMBDA e : e.key # threads[t].oldest_key)
            /\ threads' = [threads EXCEPT ![t].pc = "insert"]
            /\ UNCHANGED last
       ELSE Caught(t) /\ UNCHANGED query_cache
    /\ UNCHANGED <<chroma, collections, ncalls, embedder, routing_metrics>>

\* _cache_result: _query_cache[cache_key] = {"result": result}, and return out
CacheInsert(t) ==
    /\ threads[t].pc = "insert"
    /\ query_cache' = DictSet(query_cache, threads[t].cache_key, threads[t].out)
    /\ LET f == [threads[t] EXCEPT !.pc = "done", !.ret = threads[t].out]
       IN /\ threads' = [threads EXCEPT ![t] = f]
          /\ last' = [Returned(f) EXCEPT !.evicted = f.oldest_key]
    /\ UNCHANGED <<chroma, collections, ncalls, embedder, routing_metrics>>

QueryThreadStep == \E t \in Threads : StartQuery(t)
CacheLookupStep == \E t \in Threads : CacheLookup(t)
CacheReadStep == \E t \in Threads : CacheRead(t)
IndexSearchStep == \E t \in Threads : IndexSearch(t)
CapacityCheckStep == \E t \in Threads : CapacityCheck(t)
OldestKeyStep == \E t \in Threads : OldestKey(t)
EvictStep == \E t \in Threads : Evict(t)
CacheInsertStep == \E t \in Threads : CacheInsert(t)

NextThreads ==
    \/ QueryThreadStep
    \/ CacheLookupStep
    \/ CacheReadStep
    \/ IndexSearchStep
    \/ CapacityCheckStep
    \/ OldestKeyStep
    \/ EvictStep
    \/ CacheInsertStep
    \/ IngestStep(InputsThreads)
    \/ ClearCacheStep(InputsThreads)

SpecThreads == Init /\ [][NextThreads]_vars

(***************************************************************************)
(* agent/router.py: the routing decision and its metrics                   *)
(***************************************************************************)

\* the keys of TOOLS (agent/tools.py)
TOOLS == {"web", "rag", "hybrid", "memory", "idle"}

\* what _analyze_message_context finds in the messages of the model, and
\* keywords, the tool whose keywords the message contains ("" for none)
Analysis(agentkit, memory, facts, complexity, conversational, keywords) ==
    [about_agentkit |-> agentkit, memory_intent |-> memory,
     needs_facts |-> facts, complexity |-> complexity,
     conversational |-> conversational, keywords |-> keywords]

Analyses ==
    {Analysis(TRUE, FALSE, FALSE, "simple", FALSE, "rag"),
     Analysis(FALSE, TRUE, FALSE, "simple", FALSE, "memory"),
     Analysis(FALSE, FALSE, TRUE, "simple", FALSE, ""),
     Analysis(FALSE, FALSE, FALSE, "complex", FALSE, ""),
     Analysis(FALSE, FALSE, FALSE, "simple", TRUE, ""),
     Analysis(FALSE, FALSE, FALSE, "simple", FALSE, "web"),
     Analysis(FALSE, FALSE, FALSE, "simple", FALSE, "")}

\* _enhanced_fallback_routing
_enhanced_fallback_routing(analysis) ==
    IF analysis.about_agentkit THEN "rag"
    ELSE IF analysis.memory_intent THEN "memory"
    ELSE IF analysis.needs_facts \/ analysis.complexity = "complex" THEN "web"
    ELSE IF analysis.conversational THEN "idle"
    ELSE IF analysis.keywords \in {"web", "rag", "memory"} THEN analysis.keywords
    ELSE "idle"

\* what llm_client.generate_response answers: a tool name, a tool name to be
\* stripped and lower-cased, the tool that has no usage counter, a sentence;
\* <<>> stands for a call that raises
LlmRaises == <<>>

LlmResponses ==
    {<<"r", "a", "g">>, <<" ", "W", "e", "b", "\n">>, <<"h", "y", "b", "r", "i", "d">>,
     <<"u", "s", "e", " ", "w", "e", "b">>, LlmRaises}

\* _log_routing_decision: the metrics after the call; the KeyError of a tool
\* without a usage counter is raised after total_routes was incremented
_log_routing_decision(metrics, selected_tool, method) ==
    LET counted == [metrics EXCEPT !.total_routes = @ + 1]
    IN IF selected_tool \notin DOMAIN metrics.tool_usage
       THEN [metrics |-> counted, raised |-> TRUE]
       ELSE [metrics |-> [counted EXCEPT !.tool_usage[selected_tool] = @ + 1,
                                         !.routing_methods[method] = @ + 1],
             raised |-> FALSE]

\* select_tool(message): every exception of the try, the one of the logging
\* included, leads to the fallback and a second logging
select_tool(analysis, llm_response) ==
    LET selected_tool == Str(lower(strip(llm_response)))
        fallback_tool == _enhanced_fallback_routing(analysis)
        call == [Call("select_tool", "", "", "", Str(llm_response), 0, FALSE)
                    EXCEPT !.key = selected_tool]
        logged_llm == _log_routing_decision(routing_metrics, selected_tool, "llm")
        after_try == IF llm_response = LlmRaises THEN routing_metrics
                     ELSE logged_llm.metrics
    IN /\ UNCHANGED <<chroma, collections, query_cache, embedder, threads>>
       /\ IF llm_response # LlmRaises /\ selected_tool \in TOOLS /\ ~logged_llm.raised
          THEN /\ routing_metrics' = logged_llm.metrics
               /\ last' = [call EXCEPT !.value = selected_tool, !.method = "llm"]
          ELSE IF llm_response # LlmRaises /\ selected_tool \notin TOOLS
          THEN /\ routing_metrics' =
                      _log_routing_decision(routing_metrics, fallback_tool,
                                            "fallback").metrics
               /\ last' = [call EXCEPT !.value = fallback_tool, !.method = "fallback"]
          ELSE /\ routing_metrics' =
                      _log_routing_decision(after_try, fallback_tool,
                                            "error_fallback").metrics
               /\ last' = [call EXCEPT !.value = fallback_tool,
                                       !.method = "error_fallback",
                                       !.raised = TRUE]

\* reset_routing_metrics()
reset_routing_metrics ==
    /\ routing_metrics' = InitRoutingMetrics
    /\ UNCHANGED <<chroma, collections, query_cache, embedder, threads>>
    /\ last' = Call("reset_routing_metrics", "", "", "", "", 0, FALSE)

\* SpecRouter: routing decisions and resets of the metrics
MaxCallsRouter == 4

SelectToolStep ==
    /\ ncalls < MaxCallsRouter /\ ncalls' = ncalls + 1
    /\ \E analysis \in Analyses, llm_response \in LlmResponses :
           select_tool(analysis, llm_response)

ResetRoutingMetricsStep ==
    /\ ncalls < MaxCallsRouter /\ ncalls' = ncalls + 1
    /\ reset_routing_metrics

NextRouter ==
    \/ SelectToolStep
    \/ ResetRoutingMetricsStep

SpecRouter == Init /\ [][NextRouter]_vars

\* the sentences the texts of the chunker's runs are made of: one word of 30
\* characters, two short words, two words of 32 characters together
Sentence30 == Rep("a", 29) \o <<".">>
SentenceShort == <<"b", "b", " ", "b", "b", "?">>
SentenceTwoWords == Rep("c", 15) \o <<" ">> \o Rep("c", 15) \o <<"!">>

Sentences == {Sentence30, SentenceShort, SentenceTwoWords}

\* the number of sentences of a text at most
MaxSentences == 3

\* the texts: the sentences in every order, a blank between two of them, and
\* texts with other whitespace around and between the sentences
Texts ==
    {join(ss, <<" ">>) :
        ss \in UNION {[1..n -> Sentences] : n \in 1..MaxSentences}}
    \cup {<<>>, <<" ", "\n">>,
          <<"\n">> \o SentenceTwoWords \o <<" ", "\n">> \o Sentence30 \o <<" ">>}

ChunkSizes == {35, 70}

Overlaps == {-1, 0, 1, 3}

\* a call of chunk_text that has not run yet
ChunkTextCall(text, chunk_size, overlap) ==
    [op |-> "chunk_text", done |-> FALSE, text |-> text, chunk_size |-> chunk_size,
     overlap |-> overlap, accumulated |-> <<>>, out |-> <<>>]

ChunkTextCalls ==
    {ChunkTextCall(t, cs, ov) : t \in Texts, cs \in ChunkSizes, ov \in Overlaps}

\* chunk_text runs on its arguments; next to what it returns, the call keeps
\* the chunks as they were before the filter
ChunkTextStep ==
    /\ last.op = "chunk_text" /\ ~last.done
    /\ last' = [last EXCEPT
                   !.done = TRUE,
                   !.accumulated = accumulate(last.text, last.chunk_size, last.overlap),
                   !.out = chunk_text(last.text, last.chunk_size, last.overlap)]
    /\ ncalls' = ncalls + 1
    /\ UNCHANGED <<chroma, collections, query_cache, embedder, threads, routing_metrics>>

\* the largest distance of a result in the runs of the scorer
MaxDistance == 40

\* two results of a query, known by their distances, before they are scored
ScoreCall(d1, d2) ==
    [op |-> "relevance_score", done |-> FALSE, d1 |-> d1, d2 |-> d2,
     score1 |-> 0, score2 |-> 0]

ScoreCalls == {ScoreCall(d1, d2) : d1 \in 0..MaxDistance, d2 \in 0..MaxDistance}

\* query scores the two results
RelevanceStep ==
    /\ last.op = "relevance_score" /\ ~last.done
    /\ last' = [last EXCEPT !.done = TRUE,
                            !.score1 = relevance_score(last.d1),
                            !.score2 = relevance_score(last.d2)]
    /\ ncalls' = ncalls + 1
    /\ UNCHANGED <<chroma, collections, query_cache, embedder, threads, routing_metrics>>

\* a file whose extension no extractor reads
FileJson ==
    [name |-> "c.json", suffix |-> ".json", text |-> Sentence("d")]

\* the doc_id of the metadata: absent, empty, or given
MetadataDocIds == {NoDocId, "", "d1"}

\* a call of build_doc_chunks that has not run yet; uuid is what uuid4 would
\* return
BuildCall(file, doc_id, uuid) ==
    [op |-> "build_doc_chunks", done |-> FALSE, file |-> file, doc_id |-> doc_id,
     uuid |-> uuid, raised |-> FALSE, out |-> <<>>]

BuildCalls ==
    {BuildCall(f, d, u) : f \in Files \cup {FileJson}, d \in MetadataDocIds,
                          u \in Uuids}

\* build_doc_chunks runs on its arguments; what extract_text_from_file raises
\* is raised by the call
BuildDocChunksStep ==
    /\ last.op = "build_doc_chunks" /\ ~last.done
    /\ last' = IF extract_text_from_file(last.file).raised
               THEN [last EXCEPT !.done = TRUE, !.raised = TRUE]
               ELSE [last EXCEPT
                        !.done = TRUE,
                        !.out = build_doc_chunks(
                                    last.file,
                                    [doc_id |-> last.doc_id,
                                     filename |-> last.file.name,
                                     namespace |-> "ns"],
                                    IngestChunkSize, IngestOverlap, last.uuid)]
    /\ ncalls' = ncalls + 1
    /\ UNCHANGED <<chroma, collections, query_cache, embedder, threads, routing_metrics>>

\* the uploads of the model: file names with an extractor, with an accepted
\* extension that has no extractor, in upper case, with an extension that is
\* not accepted, without a name, with a path, without an extension
UploadNames ==
    {<<"a", ".", "t", "x", "t">>, <<"c", ".", "j", "s", "o", "n">>,
     <<"C", ".", "J", "S", "O", "N">>, <<"f", ".", "e", "x", "e">>, <<>>,
     <<".", ".", "/", "a", ".", "m", "d">>, <<".", "j", "s", "o", "n">>}

\* their contents: a sentence, nothing, and one byte more than the maximum
UploadContents == {Sentence("d"), <<>>, Rep("g", MAX_FILE_SIZE) \o <<".">>}

IngestDocCalls ==
    {IngestDocCall(f, c, u) : f \in UploadNames, c \in UploadContents, u \in Uuids}

\* the endpoint runs on its upload, into namespace "ns"
IngestDocStep ==
    /\ last.op = "ingest_doc" /\ ~last.done
    /\ ingest_doc(last.filename, last.content, "ns", last.uuid)
    /\ ncalls' = ncalls + 1
    /\ UNCHANGED <<threads, routing_metrics>>

\* SpecPure: the functions of the module on their own, each call on
\* arguments drawn at the start
InitPure ==
    /\ chroma = [ns \in Namespaces |-> NoCollection]
    /\ collections = {}
    /\ query_cache = <<>>
    /\ last \in ChunkTextCalls \cup ScoreCalls \cup BuildCalls \cup IngestDocCalls
    /\ ncalls = 0
    /\ embedder = InitEmbedder
    /\ threads = [t \in Threads |-> IdleFrame]
    /\ routing_metrics = InitRoutingMetrics

NextPure ==
    \/ ChunkTextStep
    \/ RelevanceStep
    \/ BuildDocChunksStep
    \/ IngestDocStep

SpecPure == InitPure /\ [][NextPure]_vars


(***************************************************************************)
(* Properties                                                              *)
(***************************************************************************)

\* the cache key of a call of query
KeyOf(call) == _get_cache_key(call.ns, call.q, call.k)

\* the records stored in a namespace under a doc_id
DocChunks(ns, doc_id) == {r \in chroma[ns].docs : r.metadata.doc_id = doc_id}

\* two calls of query with the cache, for the same namespace, text and k
SameCachedQuery(a, b) ==
    /\ a.op = "query" /\ b.op = "query"
    /\ a.use_cache /\ b.use_cache
    /\ a.ns = b.ns /\ a.q = b.q /\ a.k = b.k

\* a call of query with the cache that searched the index and stored its result
CachedMiss(call) ==
    call.op = "query" /\ call.use_cache /\ ~call.hit /\ ~call.raised

\* C1: the list a query on a namespace returns never holds a chunk that was
\* upserted into another namespace (every chunk is upserted with the name of
\* its namespace in its metadata)
C1_NamespaceIsolation ==
    last.op = "query" =>
        \A i \in 1..Len(last.out) : last.out[i].metadata.namespace = last.ns

C3_FifoEviction ==
    [][(CachedMiss(last') /\ Len(query_cache) = cache_max_size) =>
          /\ query_cache' = Append(Tail(query_cache),
                                   [key |-> KeyOf(last'), result |-> last'.out])
          /\ last'.evicted = Head(query_cache).key]_vars

\* capacity 2, three misses in a row: the first key is evicted, the second
\* and the third are cached
C3_Witness ==
    /\ ncalls = 3 /\ cache_max_size = 2
    /\ CachedMiss(last)
    /\ last.evicted # "" /\ last.evicted \notin CacheKeys
    /\ Len(query_cache) = 2
    /\ query_cache[2].key = KeyOf(last)

\* C4: the cache never holds more than cache_max_size entries and
\* get_cache_stats reports its size
C4_BoundedCache ==
    /\ Len(query_cache) <= cache_max_size
    /\ get_cache_stats.cache_size = Len(query_cache)
    /\ get_cache_stats.cache_max_size = cache_max_size

\* a full cache into which one more entry was inserted
C4_Witness ==
    /\ Len(query_cache) = cache_max_size
    /\ CachedMiss(last) /\ last.evicted # ""

\* C5: delete_document on a doc_id with chunks removes exactly the records
\* with that doc_id, returns their count, leaves the cached results as they
\* were, and every result an uncached query returned for another document is
\* still returned, with its distance and score
C5_DeleteDocumentExact ==
    [][(last'.op = "delete_document" /\ ~last'.raised
          /\ DocChunks(last'.ns, last'.doc) # {}) =>
          /\ chroma'[last'.ns].docs =
                 chroma[last'.ns].docs \ DocChunks(last'.ns, last'.doc)
          /\ chroma'[last'.ns].exists
          /\ last'.n = Cardinality(DocChunks(last'.ns, last'.doc))
          /\ \A o \in Namespaces \ {last'.ns} : chroma'[o] = chroma[o]
          /\ query_cache' = query_cache
          /\ \A q \in Queries, k \in 1..MaxK :
                \A r \in Seq2Set(Search(chroma[last'.ns].docs, q, k)) :
                    r.metadata.doc_id # last'.doc =>
                        r \in Seq2Set(Search(chroma'[last'.ns].docs, q, k))]_vars

\* a document was deleted and another document is left in the namespace
C5_Witness ==
    /\ last.op = "delete_document" /\ last.n > 0
    /\ chroma[last.ns].docs # {}
    /\ Search(chroma[last.ns].docs, QueryX, 1) # <<>>

\* C6: delete_document on a doc_id without chunks returns 0, raises nothing
\* and changes neither the stored chunks, nor the set of existing namespaces,
\* nor the cache
C6_DeleteAbsentMutatesNothing ==
    [][(last'.op = "delete_document" /\ DocChunks(last'.ns, last'.doc) = {}) =>
          /\ last'.n = 0 /\ ~last'.raised
          /\ \A ns \in Namespaces : chroma'[ns].docs = chroma[ns].docs
          /\ {ns \in Namespaces : chroma'[ns].exists} = list_collections
          /\ query_cache' = query_cache]_vars

\* C7: the second of two consecutive ingestions of the same file under the
\* same doc_id into the same namespace upserts the same number of chunks with
\* the same ids, and the namespace holds one record for each id, as before
C7_IdempotentIngestion ==
    [][(/\ last.op = "ingest" /\ last'.op = "ingest"
        /\ ~last.raised /\ ~last'.raised
        /\ last'.ns = last.ns /\ last'.doc = last.doc /\ last'.file = last.file) =>
          /\ last'.n = last.n
          /\ last'.ids = last.ids
          /\ \A id \in last'.ids :
                Cardinality({r \in chroma'[last'.ns].docs : r.id = id}) = 1
          /\ chroma' = chroma]_vars

\* a file of two chunks was ingested twice in a row under one doc_id
C7_Witness ==
    /\ ncalls = 2 /\ last.op = "ingest" /\ last.n = 2
    /\ Cardinality(chroma[last.ns].docs) = 2

\* C8: after an ingestion under a doc_id, the records stored under that
\* doc_id are exactly the chunks of that ingestion
C8_ReingestReplaces ==
    (last.op = "ingest" /\ ~last.raised) =>
        {r.id : r \in DocChunks(last.ns, last.doc)} = last.ids

\* C9: a query on a namespace that directly follows delete_namespace on it
\* returns no chunk
C9_DeletedNamespaceStartsEmpty ==
    [][(last.op = "delete_namespace" /\ last'.op = "query" /\ last'.ns = last.ns) =>
          last'.out = <<>>]_vars

\* C10: a query on a namespace that holds no record returns the empty list
C10_EmptyNamespaceQuery ==
    (last.op = "query" /\ chroma[last.ns].docs = {}) => last.out = <<>>

\* the records stored in every namespace
StoredVectors == [ns \in DOMAIN chroma |-> chroma[ns].docs]

\* C11: a query during which the client, the model or the index raises
\* returns the empty list and leaves the stored records and the cache as they
\* were; a call of query changes the cache only when it searched the index
\* and no collaborator raised
C11_QueryFailureDegrades ==
    [][last'.op = "query" =>
          /\ last'.raised =>
                /\ last'.out = <<>>
                /\ StoredVectors' = StoredVectors
                /\ query_cache' = query_cache
          /\ query_cache' # query_cache =>
                /\ ~last'.raised /\ ~last'.hit /\ last'.use_cache
                /\ KeyOf(last') \in {query_cache'[i].key : i \in 1..Len(query_cache')}]_vars

\* a cached query raised while the namespace held records and the cache an
\* entry of an earlier query
C11_Witness ==
    /\ last.op = "query" /\ last.raised /\ last.use_cache
    /\ chroma[last.ns].docs # {}
    /\ query_cache # <<>>
    /\ KeyOf(last) \notin CacheKeys

\* C12: a delete or rename request on the namespace "default" is answered
\* with status 400 and leaves the collections, their records and the handles
\* as they were
C12_DefaultNamespaceProtected ==
    [][(last'.op \in {"delete_namespace_endpoint", "rename_namespace"}
          /\ last'.ns = "default") =>
          /\ last'.status = 400
          /\ chroma' = chroma
          /\ collections' = collections]_vars

\* the default namespace holds chunks and a request to delete it, or to
\* rename it to a free name, was refused
C12_Witness ==
    /\ last.op \in {"delete_namespace_endpoint", "rename_namespace"}
    /\ last.ns = "default" /\ last.status = 400
    /\ last.op = "rename_namespace" => last.new_name = "docs"
    /\ chroma["default"].docs # {}
    /\ ~chroma["docs"].exists

\* the names of a listing
ListedNames(call) == {call.out[i].name : i \in 1..Len(call.out)}

\* C13: every answer of the namespace listing has status 200 and an entry
\* for "default", flagged as the default namespace
C13_DefaultAlwaysListed ==
    last.op = "list_namespaces" =>
        /\ last.status = 200
        /\ \E i \in 1..Len(last.out) :
              last.out[i].name = "default" /\ last.out[i].is_default

\* a listing while no collection exists at all, answered with "default" alone
\* and zero documents
C13_Witness ==
    /\ last.op = "list_namespaces"
    /\ ncalls = 1
    /\ ListedNames(last) = {"default"}
    /\ last.out[1].document_count = 0

\* C14: every namespace that list_collections enumerates, other than
\* "default", holds at least one record
C14_ListedNamespacesNonEmpty ==
    \A ns \in list_collections \ {"default"} : chroma[ns].docs # {}

\* a call of chunk_text that has returned
ChunkTextDone == last.op = "chunk_text" /\ last.done

IsPrefix(p, s) == Len(p) <= Len(s) /\ SubSeq(s, 1, Len(p)) = p

IsSuffix(p, s) == Len(p) <= Len(s) /\ SubSeq(s, Len(s) - Len(p) + 1, Len(s)) = p

\* the sentences of a text, as chunk_text reads them
SentencesOf(text) == Seq2Set(re_split(strip(text)))

\* C15: with 0 <= overlap < chunk_size, a chunk that chunk_text returns is at
\* most chunk_size characters long, unless it is one sentence of the text
\* that is longer than chunk_size by itself
C15_ChunkSizeBound ==
    (ChunkTextDone /\ 0 <= last.overlap /\ last.overlap < last.chunk_size) =>
        \A i \in 1..Len(last.out) :
            \/ Len(last.out[i]) <= last.chunk_size
            \/ last.out[i] \in SentencesOf(last.text)

\* C16: at every rollover the chunk that follows begins with what
\* chunk_text took over from the chunk it closed, and that is a tail of the
\* closed chunk of at most overlap characters (for overlap >= 0)
C16_OverlapInCharacters ==
    (ChunkTextDone /\ 0 <= last.overlap) =>
        \A i \in 1..(Len(last.accumulated) - 1) :
            LET seed == overlap_tokens(last.accumulated[i], last.overlap)
            IN /\ IsPrefix(seed, last.accumulated[i + 1])
               /\ IsSuffix(seed, last.accumulated[i])
               /\ Len(seed) <= last.overlap

\* the words of chunk i that are not taken over from the chunk before it
NonOverlapWords(chunks, i, overlap) ==
    LET words == split(chunks[i])
        taken == IF i = 1 THEN 0
                 ELSE IF overlap < Len(split(chunks[i - 1])) THEN overlap
                 ELSE Len(split(chunks[i - 1]))
    IN SubSeq(words, taken + 1, Len(words))

\* the non-overlap regions of the chunks from the i-th on, word after word
RECURSIVE Reconstructed(_, _, _)
Reconstructed(chunks, i, overlap) ==
    IF i > Len(chunks) THEN <<>>
    ELSE NonOverlapWords(chunks, i, overlap) \o Reconstructed(chunks, i + 1, overlap)

\* C17 as stated: with overlap < chunk_size, the non-overlap regions of the
\* returned chunks, one after the other, are the text, whitespace apart (the
\* words of the text, in their order)
C17_LosslessChunking ==
    (ChunkTextDone /\ last.overlap < last.chunk_size) =>
        Reconstructed(last.out, 1, last.overlap) = split(last.text)

\* C17 as amended: the same for 0 <= overlap, when the filter discarded no
\* accumulated chunk
C17_LosslessWhenNothingDiscarded ==
    (ChunkTextDone /\ 0 <= last.overlap /\ last.overlap < last.chunk_size
       /\ Len(last.out) = Len(last.accumulated)) =>
        Reconstructed(last.out, 1, last.overlap) = split(last.text)

\* three sentences in three chunks, the second and the third of which begin
\* with words of the chunk before
C17_Witness ==
    /\ ChunkTextDone /\ last.overlap > 0
    /\ Len(last.out) = 3 /\ Len(last.accumulated) = 3
    /\ Len(re_split(strip(last.text))) = 3
    /\ \A i \in 1..2 :
          /\ overlap_tokens(last.out[i], last.overlap) # <<>>
          /\ IsPrefix(overlap_tokens(last.out[i], last.overlap), last.out[i + 1])

\* the accumulated chunks of at least n characters, stripped
RECURSIVE KeepAtLeast(_, _)
KeepAtLeast(chunks, n) ==
    IF chunks = <<>> THEN <<>>
    ELSE (IF Len(strip(Head(chunks))) >= n THEN <<strip(Head(chunks))>> ELSE <<>>)
         \o KeepAtLeast(Tail(chunks), n)

\* C18 as stated: chunk_text returns the accumulated chunks whose stripped
\* length is at least 30, and no other
C18_ShortChunkFilter ==
    ChunkTextDone => last.out = KeepAtLeast(last.accumulated, MinChunkLen)

\* C18 as amended: chunk_text returns the accumulated chunks whose stripped
\* length is more than 30, and no other, each of them stripped
C18_ShortChunkFilterAbove30 ==
    ChunkTextDone =>
        /\ last.out = KeepAtLeast(last.accumulated, MinChunkLen + 1)
        /\ \A i \in 1..Len(last.out) : Len(last.out[i]) > MinChunkLen

\* an accumulated chunk of exactly 30 characters was discarded and a longer
\* one returned
C18_Witness ==
    /\ ChunkTextDone
    /\ \E i \in 1..Len(last.accumulated) :
          /\ Len(strip(last.accumulated[i])) = MinChunkLen
          /\ strip(last.accumulated[i]) \notin Seq2Set(last.out)
    /\ last.out # <<>>

\* C19 as stated: of two results with distances d1 < d2 the first has the
\* strictly greater relevance_score, and a result at distance 0 has
\* relevance_score 1.0 (1000 thousandths)
C19_RelevanceMonotonic ==
    (last.op = "relevance_score" /\ last.done) =>
        /\ last.d1 < last.d2 => last.score1 > last.score2
        /\ last.d1 = 0 => last.score1 = 1000

\* C19 as amended: of two results with distances d1 < d2 the first has a
\* relevance_score that is not smaller, and a result at distance 0 has
\* relevance_score 1.0
C19_RelevanceNeverIncreases ==
    (last.op = "relevance_score" /\ last.done) =>
        /\ last.d1 < last.d2 => last.score1 >= last.score2
        /\ last.d1 = 0 => last.score1 = 1000

\* two results at different distances were given the same rounded score
C19_Witness ==
    /\ last.op = "relevance_score" /\ last.done
    /\ 0 < last.d1 /\ last.d1 < last.d2
    /\ last.score1 = last.score2 /\ last.score1 > 0

\* C20: the i-th chunk that build_doc_chunks returns (counted from 0) has
\* the id "{doc_id}-{i}" and carries doc_id and i in its metadata, where
\* doc_id is the one of the caller's metadata or, without one, the one that
\* was generated
C20_ChunkIdsAndMetadata ==
    (last.op = "build_doc_chunks" /\ last.done /\ ~last.raised) =>
        LET doc_id == IF last.doc_id \in {NoDocId, ""} THEN last.uuid
                      ELSE last.doc_id
        IN \A i \in 1..Len(last.out) :
              /\ last.out[i].id = doc_id \o "-" \o ToString(i - 1)
              /\ last.out[i].metadata.doc_id = doc_id
              /\ last.out[i].metadata.chunk = i - 1

C25_CacheKeyInjective ==
    [][(/\ last.op = "query" /\ last'.op = "query"
        /\ last.use_cache /\ last'.use_cache
        /\ KeyOf(last) = KeyOf(last')) =>
          /\ last.ns = last'.ns
          /\ last.q = last'.q
          /\ last.k = last'.k]_vars

\* C26: in every state, for every namespace, query text and k, what the
\* cache would answer is what a search of the index returns
C26_CacheCoherentWithWrites ==
    \A ns \in DOMAIN chroma, q \in Queries, k \in 1..MaxK :
        LET cached == _get_cached_result(_get_cache_key(ns, Str(q), k))
        IN cached.found => cached.result = Search(chroma[ns].docs, q, k)

\* what a collection holds apart from the vectors: ids, texts and metadata
Contents(docs) == {[id |-> r.id, text |-> r.text, metadata |-> r.metadata] : r \in docs}

\* C28: after a rename that answers 200, the listing (the collections and
\* "default") contains the new name and not the old one, and the new
\* namespace holds exactly the ids, texts and metadata the old one held,
\* whatever the old one held, zero chunks included
C28_RenamePreservesContent ==
    [][LET old_name == last'.ns
           new_name == last'.new_name
           listed == {ns \in DOMAIN chroma : chroma'[ns].exists} \cup {"default"}
       IN (last'.op = "rename_namespace" /\ last'.status = 200) =>
             /\ new_name \in listed
             /\ old_name \notin listed
             /\ Contents(chroma'[new_name].docs) = Contents(chroma[old_name].docs)]_vars

\* the endpoint accepted the upload: its extension is one of
\* SUPPORTED_EXTENSIONS and its content is not empty and not too large
AcceptedUpload(call) ==
    /\ call.op = "ingest_doc" /\ call.done
    /\ call.filename # <<>>
    /\ Str(splitext(lower(call.filename))) \in SUPPORTED_EXTENSIONS
    /\ 0 < Len(call.content) /\ Len(call.content) <= MAX_FILE_SIZE

\* C29: the ingestion of a non-empty file of allowed size whose extension
\* the upload validation accepts never fails with an unsupported-extension
\* error
C29_AcceptedExtensionsExtracted ==
    AcceptedUpload(last) => last.detail # "Unsupported file extension"

\* C22: an ingestion during which the model cannot be loaded or the encoding
\* raises fails, and the records stored before it are the records stored
\* after it, in every namespace: none added, changed or removed
C22_EmbeddingFailureKeepsVectors ==
    [][(last'.op = "ingest" /\ last'.raised) =>
          /\ StoredVectors' = StoredVectors
          /\ last'.n = 0 /\ last'.ids = {}]_vars

\* the first call of the run stored two records in one namespace; the second
\* is an ingestion into the other namespace that opened its collection (the
\* client did not raise) and failed at the embedding
C22_Witness ==
    /\ ncalls = 2
    /\ last.op = "ingest" /\ last.raised
    /\ chroma[last.ns].exists /\ chroma[last.ns].docs = {}
    /\ \E ns \in DOMAIN chroma : Cardinality(chroma[ns].docs) = 2

\* the call that made the step used the embedding model: an ingestion that
\* stored chunks, or a query that searched the index
UsedModel(call) ==
    /\ ~call.raised
    /\ \/ call.op = "ingest" /\ call.n > 0
       \/ call.op = "query" /\ ~call.hit

\* a model is loaded and it is the one the configuration names
ActiveLoaded(e) == e.model # NoModel /\ e.model = e.config /\ e.model_name = e.config

C21_ConcurrentCacheBounded ==
    (\E t \in Threads : threads[t].pc # "idle") => Len(query_cache) <= cache_max_size

\* C27: a cached query that searched the index returns the results of that
\* search, whatever clear_cache or another query did between its statements
C27_SearchedQueryReturnsResults ==
    \A t \in Threads :
        (threads[t].pc = "done" /\ threads[t].searched) => threads[t].ret = threads[t].out

RECURSIVE SumOver(_, _)
SumOver(f, keys) ==
    IF keys = {} THEN 0
    ELSE LET key == CHOOSE x \in keys : TRUE
         IN f[key] + SumOver(f, keys \ {key})

\* C30: after any sequence of select_tool calls, whichever tool of TOOLS was
\* selected, total_routes is the sum of the tool_usage counts and the sum of
\* the routing_methods counts: every decision is counted exactly once
C30_RoutingMetricsConsistent ==
    /\ routing_metrics.total_routes
          = SumOver(routing_metrics.tool_usage, DOMAIN routing_metrics.tool_usage)
    /\ routing_metrics.total_routes
          = SumOver(routing_metrics.routing_methods,
                    DOMAIN routing_metrics.routing_methods)
====
